---- MODULE Spec2Model ----
(***************************************************************************)
(* Model of the link-preview API route, src/pages/api/link-preview/[url].ts *)
(* One request is processed per behaviour.  Every await of the handler and  *)
(* of scrapeMetaTags is a step; the outcome of each external call (image    *)
(* search provider, direct fetch, headless browser) is chosen               *)
(* nondeterministically when the call returns.                              *)
(***************************************************************************)
EXTENDS Integers, Sequences, FiniteSets, TLC

(***************************************************************************)
(* Bounds of the model                                                     *)
(***************************************************************************)
\* longest root-domain result list the provider returns
MaxRootImages == 6
\* longest page-specific result list the provider returns
MaxPageImages == 21
\* longest title fed to getImageSearchString in SpecStr
MaxTitleLen == 5

(***************************************************************************)
(* Strings are sequences of one-character strings.                         *)
(***************************************************************************)
Whitespace == {" "}
\* representatives of the character class of line 143; "." is also the
\* character that separates the labels of the root domain
SpecialChars == {"&", "."}
Letters == {"e", "E", "x", "c", "t"}
Alphabet == Letters \cup Whitespace \cup SpecialChars

\* psl.get(extractHostname(url)) of the modelled target: "ex.c"; its sld: "ex"
RootDomain == <<"e", "x", ".", "c">>
Sld == <<"e", "x">>
\* psl.get(...) returned null
NoDomain == <<>>

Lower(ch) == IF ch = "E" THEN "e" ELSE ch

\* /\S/.test(s)
HasNonWhitespaceEmptyTest(s) == Len(s) > 0
HasNonWhitespace(s) == \E i \in 1..Len(s) : s[i] \notin Whitespace

\* one character of the pattern new RegExp(rootDomain, 'ig') against one of the
\* subject: "." is the wildcard, everything else compares case-insensitively
RegExCharMatches(p, ch) == p = "." \/ Lower(p) = Lower(ch)

MatchesAt(s, i, pat) ==
    /\ i + Len(pat) - 1 <= Len(s)
    /\ \A k \in 1..Len(pat) : RegExCharMatches(pat[k], s[i + k - 1])

\* s.replace(new RegExp(pat, 'ig'), ''): leftmost non-overlapping matches are
\* removed in one left-to-right scan; the result is not scanned again
RECURSIVE ReplaceFrom(_, _, _)
ReplaceFrom(s, i, pat) ==
    IF i > Len(s) THEN <<>>
    ELSE IF MatchesAt(s, i, pat) THEN ReplaceFrom(s, i + Len(pat), pat)
    ELSE <<s[i]>> \o ReplaceFrom(s, i + 1, pat)

RegExReplaceAll(s, pat) == ReplaceFrom(s, 1, pat)

\* s.replace(/[&\/\\#,+()$~%.'":*?<>{}|—]/g, ' ')
StripSpecialChars(s) == [i \in 1..Len(s) |-> IF s[i] \in SpecialChars THEN " " ELSE s[i]]

RECURSIVE TrimLeft(_)
TrimLeft(s) ==
    IF s = <<>> THEN <<>>
    ELSE IF s[1] \in Whitespace THEN TrimLeft(Tail(s)) ELSE s

RECURSIVE TrimRight(_)
TrimRight(s) ==
    IF s = <<>> THEN <<>>
    ELSE IF s[Len(s)] \in Whitespace THEN TrimRight(SubSeq(s, 1, Len(s) - 1)) ELSE s

Trim(s) == TrimRight(TrimLeft(s))

\* getImageSearchString(title, url, siteName) with rootDomain = psl.get(extractHostname(url))
getImageSearchString(title, rootDomain) ==
    LET stripRootDomain == RegExReplaceAll(title, rootDomain)
        searchString ==
            IF rootDomain # NoDomain /\ HasNonWhitespace(stripRootDomain)
            THEN stripRootDomain
            ELSE title
    IN Trim(StripSpecialChars(searchString))

(***************************************************************************)
(* Image lists                                                             *)
(***************************************************************************)
RootImgs(n) == [i \in 1..n |-> <<"r", i - 1>>]
PageImgs(n) == [i \in 1..n |-> <<"p", i - 1>>]
\* the value of an array element past the end of the array
Undefined == <<"undefined", 0>>

\* arr[i] of JavaScript, i counted from 0
At(arr, i) == IF i < Len(arr) THEN arr[i + 1] ELSE Undefined

\* arr.splice(start, 0, item): start is clamped to the length of the array
SpliceNoClamp(arr, start, item) ==
    IF start > Len(arr) THEN arr
    ELSE SubSeq(arr, 1, start) \o <<item>> \o SubSeq(arr, start + 1, Len(arr))
Splice(arr, start, item) ==
    LET k == IF start > Len(arr) THEN Len(arr) ELSE start
    IN SubSeq(arr, 1, k) \o <<item>> \o SubSeq(arr, k + 1, Len(arr))

\* the five splice calls of lines 62-66
MergeRootImages(imageUrls, root) ==
    Splice(Splice(Splice(Splice(Splice(imageUrls,
        2, At(root, 0)), 5, At(root, 1)), 10, At(root, 2)), 15, At(root, 3)), 20, At(root, 4))

(***************************************************************************)
(* The request                                                             *)
(***************************************************************************)
\* req.query.url: absent, several values, or one string.  A string either
\* makes decodeURIComponent throw (a malformed percent sequence) or decodes to
\* a target with a scheme that is or is not well formed.
UrlParams ==
    { [kind |-> "absent", decodable |-> FALSE, scheme |-> "none", wellFormed |-> FALSE],
      [kind |-> "array", decodable |-> FALSE, scheme |-> "none", wellFormed |-> FALSE],
      [kind |-> "string", decodable |-> FALSE, scheme |-> "none", wellFormed |-> FALSE] }
    \cup
    [kind : {"string"}, decodable : {TRUE},
     scheme : {"http", "https", "ftp", "none"}, wellFormed : BOOLEAN]

Methods == {"GET", "POST", "DELETE"}

\* what psl.get / psl.parse answer for the host of the target
PslOutcomes == {"ok", "noRootDomain", "parseError", "noSld"}

Requests == [url : UrlParams, method : Methods, psl : PslOutcomes]

\* utils.isString
isString(url) == url.kind = "string"

\* utils.isValidWebUrl, of the decoded target
isValidWebUrl(url) == url.wellFormed /\ url.scheme \in {"http", "https"}

\* the nesting of the handler's conditions: which exit a request takes
ValidationOutcomeNoUrlCheck(r) ==
    IF ~isString(r.url) THEN "onlyOneUrl"
    ELSE IF ~r.url.decodable THEN "decodeThrows"
    ELSE IF r.method # "GET" THEN "methodNotAllowed"
    ELSE "process"
ValidationOutcomeMethodFirst(r) ==
    IF ~isString(r.url) THEN "onlyOneUrl"
    ELSE IF ~r.url.decodable THEN "decodeThrows"
    ELSE IF r.method # "GET" THEN "methodNotAllowed"
    ELSE IF ~isValidWebUrl(r.url) THEN "invalidUrl"
    ELSE "process"
ValidationOutcome(r) ==
    IF ~isString(r.url) THEN "onlyOneUrl"
    ELSE IF ~r.url.decodable THEN "decodeThrows"
    ELSE IF ~isValidWebUrl(r.url) THEN "invalidUrl"
    ELSE IF r.method # "GET" THEN "methodNotAllowed"
    ELSE "process"

(***************************************************************************)
(* Responses and errors                                                    *)
(***************************************************************************)
NoTitle == <<>>

\* res.status(400 | 404).json({ success: false, error })
ErrorResponse(status, error) ==
    [status |-> status, success |-> FALSE, error |-> error,
     hasErrors |-> FALSE, errors |-> <<>>,
     hasResult |-> FALSE, hasMetaTags |-> FALSE, title |-> NoTitle,
     imageSearch |-> <<>>, imageResults |-> <<>>]

\* lines 67-74: the response of the full-success path carries no errors field
FullResponseWithErrors(title, search, images, errs) ==
    [status |-> 200, success |-> TRUE, error |-> "none",
     hasErrors |-> TRUE, errors |-> errs,
     hasResult |-> TRUE, hasMetaTags |-> TRUE, title |-> title,
     imageSearch |-> search, imageResults |-> images]
FullResponse(title, search, images, errs) ==
    [status |-> 200, success |-> TRUE, error |-> "none",
     hasErrors |-> FALSE, errors |-> <<>>,
     hasResult |-> TRUE, hasMetaTags |-> TRUE, title |-> title,
     imageSearch |-> search, imageResults |-> images]

\* lines 78-86, 90-98, 103-110: the fallback responses
FallbackResponseNoImages(hasData, title, search, root, errs) ==
    [status |-> 200, success |-> TRUE, error |-> "none",
     hasErrors |-> TRUE, errors |-> errs,
     hasResult |-> TRUE, hasMetaTags |-> hasData, title |-> title,
     imageSearch |-> search, imageResults |-> <<>>]
FallbackResponse(hasData, title, search, root, errs) ==
    [status |-> 200, success |-> TRUE, error |-> "none",
     hasErrors |-> TRUE, errors |-> errs,
     hasResult |-> TRUE, hasMetaTags |-> hasData, title |-> title,
     imageSearch |-> search, imageResults |-> root]

\* Error values.  An element of the handler's errors array is a sequence of
\* tags: one tag for a search error, the scraper's whole list for tags.errors.
RootSearchError == <<"rootSearch">>
PageSearchError == <<"pageSearch">>
NoSearchStringError == <<"No search string for image">>
UndefinedError == <<"undefined">>

\* the steps of scrapeMetaTags that lie inside a try block
ScrapeCatchesFetchOnly(step) == step = "fetch"
ScrapeCatches(step) == step \in {"fetch", "launch", "newPage", "goto", "evaluate", "close"}

\* html: the document obtained, with the text of its first title element
NoHtml == [present |-> FALSE, title |-> NoTitle]
Doc(t) == [present |-> TRUE, title |-> t]

\* titles of the pages scraped by the handler
TitleSamples ==
    { <<>>, <<" ">>, <<" ", " ">>, <<"&">>, <<".", " ">>,
      <<"t">>, <<"t", "&", "t">>, <<" ", "t", " ">>,
      <<"e", "x">>, <<"E", "x", " ", "t">>,
      <<"e", "x", ".", "c">>, <<"t", " ", "e", "x", ".", "c">>,
      <<"e", "x", "t", "c", "t">> }

(***************************************************************************)
(* State                                                                   *)
(***************************************************************************)
VARIABLES
    pc,                  \* where the request is
    req,                 \* the request
    rootDomainImageUrls, \* handler local, line 27
    imageSearchString,   \* handler local, line 28
    errors,              \* handler local, line 29
    html,                \* scrapeMetaTags local, line 180
    scrapeErrors,        \* scrapeMetaTags local, line 181
    browser,             \* "none", "open" or "closed"
    pageImages,          \* what the page-specific search returned
    pageSearch,          \* how the page-specific search ended
    sent,                \* the responses sent, in order
    bingCalls,           \* requests made to the image-search provider
    fetchCalls,          \* direct fetches made
    launches,            \* headless browsers launched
    failures,            \* the steps that failed while processing the request
    strTitle,            \* SpecStr: the title given to getImageSearchString
    strDomain,           \* SpecStr: the root domain of its url
    strResult            \* SpecStr: what it returned

vars == <<pc, req, rootDomainImageUrls, imageSearchString, errors, html,
          scrapeErrors, browser, pageImages, pageSearch, sent, bingCalls,
          fetchCalls, launches, failures, strTitle, strDomain, strResult>>

strVars == <<strTitle, strDomain, strResult>>
scrapeVars == <<html, scrapeErrors, browser, launches>>

Init ==
    /\ pc = "start"
    /\ req \in Requests
    /\ rootDomainImageUrls = <<>>
    /\ imageSearchString = <<>>
    /\ errors = <<>>
    /\ html = NoHtml
    /\ scrapeErrors = <<>>
    /\ browser = "none"
    /\ pageImages = <<>>
    /\ pageSearch = "notRun"
    /\ sent = <<>>
    /\ bingCalls = 0
    /\ fetchCalls = 0
    /\ launches = 0
    /\ failures = {}
    /\ strTitle = <<>>
    /\ strDomain = NoDomain
    /\ strResult = <<>>

(***************************************************************************)
(* What the external collaborators may answer                              *)
(***************************************************************************)
\* api.request of getBingImageSearch: a response with a value list of n
\* images, a response without a value list, or a rejection
SearchOutcomes(maxLen) ==
    [kind : {"results"}, n : 0..maxLen] \cup [kind : {"noValue", "error"}, n : {0}]

\* api(url) of scrapeMetaTags: a document, an empty body, or a rejection
FetchOutcomes ==
    {[kind |-> "doc", html |-> Doc(t)] : t \in TitleSamples}
    \cup {[kind |-> "empty", html |-> NoHtml], [kind |-> "error", html |-> NoHtml]}

\* page.evaluate: the outer HTML, undefined, or a rejection
EvaluateOutcomes == FetchOutcomes

(***************************************************************************)
(* The handler from the return of scrapeMetaTags on, lines 55-111: h is the *)
(* html the scraper ended with, serrs its error list, f the failures so far *)
(***************************************************************************)
HandlerContinue(h, serrs, f) ==
    IF h.present
    THEN IF HasNonWhitespace(h.title)
         THEN LET search == getImageSearchString(h.title, RootDomain) IN
              /\ imageSearchString' = search
              /\ IF search # <<>>
                 THEN \* getBingImageSearch issues the request
                      /\ bingCalls' = bingCalls + 1
                      /\ pc' = "pageSearch"
                      /\ UNCHANGED pageSearch
                      /\ failures' = f
                      /\ UNCHANGED <<errors, sent>>
                 ELSE \* getBingImageSearch: "No search string for image"
                      LET errs == Append(errors, NoSearchStringError) IN
                      /\ errors' = errs
                      /\ sent' = Append(sent, FallbackResponse(TRUE, h.title, search,
                                                  rootDomainImageUrls, errs))
                      /\ failures' = f \cup {"pageSearch"}
                      /\ pc' = "done"
                      /\ pageSearch' = "noQuery"
                      /\ UNCHANGED bingCalls
         ELSE /\ sent' = Append(sent, FallbackResponse(TRUE, h.title, imageSearchString,
                                          rootDomainImageUrls, errors))
              /\ failures' = f
              /\ pc' = "done"
              /\ UNCHANGED <<imageSearchString, errors, bingCalls, pageSearch>>
    ELSE LET errs == Append(errors, serrs) IN
         /\ errors' = errs
         /\ sent' = Append(sent, FallbackResponse(FALSE, NoTitle, imageSearchString,
                                     rootDomainImageUrls, errs))
         /\ failures' = f
         /\ pc' = "done"
         /\ UNCHANGED <<imageSearchString, bingCalls, pageSearch>>

(***************************************************************************)
(* Actions                                                                 *)
(***************************************************************************)
\* lines 19-50 and 113-121: validation, root-domain resolution, and the call
\* of the root-domain image search
HandlerStart ==
    /\ pc = "start"
    /\ LET outcome == ValidationOutcome(req) IN
       IF outcome = "onlyOneUrl"
       THEN /\ sent' = Append(sent, ErrorResponse(400, "Only one url can be checked"))
            /\ pc' = "done"
            /\ UNCHANGED <<imageSearchString, bingCalls, pageSearch>>
       ELSE IF outcome = "decodeThrows"
       THEN /\ pc' = "thrown"
            /\ UNCHANGED <<sent, imageSearchString, bingCalls, pageSearch>>
       ELSE IF outcome = "invalidUrl"
       THEN /\ sent' = Append(sent, ErrorResponse(400, "Invalid web url"))
            /\ pc' = "done"
            /\ UNCHANGED <<imageSearchString, bingCalls, pageSearch>>
       ELSE IF outcome = "methodNotAllowed"
       THEN /\ sent' = Append(sent, ErrorResponse(404, "Method not allowed"))
            /\ pc' = "done"
            /\ UNCHANGED <<imageSearchString, bingCalls, pageSearch>>
       ELSE IF req.psl # "ok"
       THEN \* throw Error(...), lines 43, 46, 49
            /\ pc' = "thrown"
            /\ UNCHANGED <<sent, imageSearchString, bingCalls, pageSearch>>
       ELSE /\ imageSearchString' = Sld
            /\ bingCalls' = bingCalls + 1
            /\ UNCHANGED pageSearch
            /\ pc' = "rootSearch"
            /\ UNCHANGED sent
    /\ UNCHANGED <<req, rootDomainImageUrls, errors, pageImages, fetchCalls, failures>>
    /\ UNCHANGED scrapeVars
    /\ UNCHANGED strVars

\* lines 36-41, then line 53 and scrapeMetaTags up to its first await, line 184
RootSearchReturn ==
    /\ pc = "rootSearch"
    /\ \E o \in SearchOutcomes(MaxRootImages) :
         IF o.kind = "results"
         THEN /\ rootDomainImageUrls' = RootImgs(o.n)
              /\ UNCHANGED <<errors, failures>>
         ELSE IF o.kind = "error"
         THEN /\ errors' = Append(errors, RootSearchError)
              /\ failures' = failures \cup {"rootSearch"}
              /\ UNCHANGED rootDomainImageUrls
         ELSE /\ errors' = Append(errors, UndefinedError)
              /\ UNCHANGED <<rootDomainImageUrls, failures>>
    /\ fetchCalls' = fetchCalls + 1
    /\ pc' = "fetch"
    /\ UNCHANGED <<req, imageSearchString, pageImages, sent, bingCalls, pageSearch>>
    /\ UNCHANGED scrapeVars
    /\ UNCHANGED strVars

\* a step of scrapeMetaTags rejected while no html is held: the catch block
\* records the error and the scraper returns its errors (lines 212-215, 241-245)
RenderFails(step) ==
    IF ScrapeCatches(step)
    THEN LET serrs == Append(scrapeErrors, step) IN
         /\ scrapeErrors' = serrs
         /\ HandlerContinue(NoHtml, serrs, failures \cup {"render"})
    ELSE /\ pc' = "thrown"
         /\ UNCHANGED <<scrapeErrors, imageSearchString, errors, sent, bingCalls, pageSearch,
                        failures>>

\* lines 183-204, and lines 218-247 when the fetch brought a document
FetchReturn ==
    /\ pc = "fetch"
    /\ \E o \in FetchOutcomes :
         IF o.kind = "doc"
         THEN /\ html' = o.html
              /\ HandlerContinue(o.html, scrapeErrors, failures)
              /\ UNCHANGED scrapeErrors
         ELSE IF o.kind = "empty"
         THEN /\ pc' = "launch"
              /\ UNCHANGED <<html, scrapeErrors, imageSearchString, errors, sent,
                             bingCalls, pageSearch, failures>>
         ELSE IF ScrapeCatches("fetch")
         THEN /\ scrapeErrors' = Append(scrapeErrors, "fetch")
              /\ failures' = failures \cup {"fetch"}
              /\ pc' = "launch"
              /\ UNCHANGED <<html, imageSearchString, errors, sent, bingCalls, pageSearch>>
         ELSE /\ pc' = "thrown"
              /\ UNCHANGED <<html, scrapeErrors, imageSearchString, errors, sent,
                             bingCalls, pageSearch, failures>>
    /\ UNCHANGED <<req, rootDomainImageUrls, pageImages, fetchCalls, browser, launches>>
    /\ UNCHANGED strVars

\* line 206: puppeteer.use(StealthPlugin()).launch()
Launch ==
    /\ pc = "launch"
    /\ \E ok \in BOOLEAN :
         IF ok
         THEN /\ browser' = "open"
              /\ launches' = launches + 1
              /\ pc' = "newPage"
              /\ UNCHANGED <<scrapeErrors, imageSearchString, errors, sent, bingCalls, pageSearch,
                             failures>>
         ELSE /\ RenderFails("launch")
              /\ UNCHANGED <<browser, launches>>
    /\ UNCHANGED <<req, rootDomainImageUrls, pageImages, fetchCalls, html>>
    /\ UNCHANGED strVars

\* line 207: browser.newPage()
NewPage ==
    /\ pc = "newPage"
    /\ \E ok \in BOOLEAN :
         IF ok
         THEN /\ pc' = "goto"
              /\ UNCHANGED <<scrapeErrors, imageSearchString, errors, sent, bingCalls, pageSearch,
                             failures>>
         ELSE RenderFails("newPage")
    /\ UNCHANGED <<req, rootDomainImageUrls, pageImages, fetchCalls, html, browser, launches>>
    /\ UNCHANGED strVars

\* line 208: page.goto(url, { waitUntil: 'networkidle0' })
Goto ==
    /\ pc = "goto"
    /\ \E ok \in BOOLEAN :
         IF ok
         THEN /\ pc' = "evaluate"
              /\ UNCHANGED <<scrapeErrors, imageSearchString, errors, sent, bingCalls, pageSearch,
                             failures>>
         ELSE RenderFails("goto")
    /\ UNCHANGED <<req, rootDomainImageUrls, pageImages, fetchCalls, html, browser, launches>>
    /\ UNCHANGED strVars

\* line 209: html = await page.evaluate(...)
Evaluate ==
    /\ pc = "evaluate"
    /\ \E o \in EvaluateOutcomes :
         IF o.kind = "error"
         THEN /\ RenderFails("evaluate")
              /\ UNCHANGED html
         ELSE /\ html' = o.html
              /\ pc' = "close"
              /\ UNCHANGED <<scrapeErrors, imageSearchString, errors, sent, bingCalls, pageSearch,
                             failures>>
    /\ UNCHANGED <<req, rootDomainImageUrls, pageImages, fetchCalls, browser, launches>>
    /\ UNCHANGED strVars

\* line 210: browser.close(), then lines 218-247 and the handler; a rejected
\* close is caught at line 212 with the html already held
Close ==
    /\ pc = "close"
    /\ \E ok \in BOOLEAN :
         IF ok
         THEN /\ browser' = "closed"
              /\ HandlerContinue(html, scrapeErrors, failures)
              /\ UNCHANGED scrapeErrors
         ELSE IF ScrapeCatches("close")
         THEN LET serrs == Append(scrapeErrors, "close") IN
              /\ scrapeErrors' = serrs
              /\ HandlerContinue(html, serrs, failures \cup {"render"})
              /\ UNCHANGED browser
         ELSE /\ pc' = "thrown"
              /\ UNCHANGED <<scrapeErrors, browser, imageSearchString, errors, sent,
                             bingCalls, pageSearch, failures>>
    /\ UNCHANGED <<req, rootDomainImageUrls, pageImages, fetchCalls, html, launches>>
    /\ UNCHANGED strVars

\* lines 58-87: the page-specific search returns
PageSearchReturn ==
    /\ pc = "pageSearch"
    /\ \E o \in SearchOutcomes(MaxPageImages) :
         IF o.kind = "results"
         THEN /\ pageImages' = PageImgs(o.n)
              /\ pageSearch' = "results"
              /\ sent' = Append(sent, FullResponse(html.title, imageSearchString,
                                          MergeRootImages(PageImgs(o.n), rootDomainImageUrls),
                                          errors))
              /\ UNCHANGED <<errors, failures>>
         ELSE LET errs == Append(errors, IF o.kind = "error" THEN PageSearchError
                                                              ELSE UndefinedError) IN
              /\ errors' = errs
              /\ pageSearch' = o.kind
              /\ failures' = IF o.kind = "error" THEN failures \cup {"pageSearch"}
                                                 ELSE failures
              /\ sent' = Append(sent, FallbackResponse(TRUE, html.title, imageSearchString,
                                          rootDomainImageUrls, errs))
              /\ UNCHANGED pageImages
    /\ pc' = "done"
    /\ UNCHANGED <<req, rootDomainImageUrls, imageSearchString, bingCalls, fetchCalls>>
    /\ UNCHANGED scrapeVars
    /\ UNCHANGED strVars

Next ==
    \/ HandlerStart
    \/ RootSearchReturn
    \/ FetchReturn
    \/ Launch
    \/ NewPage
    \/ Goto
    \/ Evaluate
    \/ Close
    \/ PageSearchReturn

Spec == Init /\ [][Next]_vars

(***************************************************************************)
(* SpecStr: getImageSearchString applied to every title up to MaxTitleLen   *)
(***************************************************************************)
Titles == UNION {[1..n -> Alphabet] : n \in 0..MaxTitleLen}

InitStr ==
    /\ pc = "strInput"
    /\ req = [url |-> [kind |-> "absent", decodable |-> FALSE, scheme |-> "none",
                       wellFormed |-> FALSE],
              method |-> "GET", psl |-> "ok"]
    /\ rootDomainImageUrls = <<>>
    /\ imageSearchString = <<>>
    /\ errors = <<>>
    /\ html = NoHtml
    /\ scrapeErrors = <<>>
    /\ browser = "none"
    /\ pageImages = <<>>
    /\ pageSearch = "notRun"
    /\ sent = <<>>
    /\ bingCalls = 0
    /\ fetchCalls = 0
    /\ launches = 0
    /\ failures = {}
    /\ strTitle \in Titles
    /\ strDomain \in {RootDomain, NoDomain}
    /\ strResult = <<>>

\* lines 124-148
GetImageSearchStringCall ==
    /\ pc = "strInput"
    /\ strResult' = getImageSearchString(strTitle, strDomain)
    /\ pc' = "strDone"
    /\ UNCHANGED <<req, rootDomainImageUrls, imageSearchString, errors, pageImages, sent,
                   bingCalls, pageSearch, fetchCalls, failures, strTitle, strDomain>>
    /\ UNCHANGED scrapeVars

NextStr == GetImageSearchStringCall

SpecStr == InitStr /\ [][NextStr]_vars

(***************************************************************************)
(* Properties                                                              *)
(***************************************************************************)
AllWhitespace(t) == \A i \in 1..Len(t) : t[i] = " "
Elems(q) == {q[i] : i \in 1..Len(q)}
IsPageImage(x) == x[1] = "p"
IsRootImage(x) == x[1] = "r"
Min(a, b) == IF a < b THEN a ELSE b

\* insert x so that it stands at 0-based position i of the result; a position
\* past the end appends
InsertAt(q, i, x) ==
    IF i >= Len(q) THEN Append(q, x)
    ELSE [k \in 1..(Len(q) + 1) |-> IF k <= i THEN q[k] ELSE IF k = i + 1 THEN x ELSE q[k - 1]]

\* the url parameter is one string that decodes
DecodedRequest == isString(req.url) /\ req.url.decodable
InvalidUrlRequest == DecodedRequest /\ ~isValidWebUrl(req.url)
\* a GET request that passed validation and whose root domain and sld resolved
ProcessedGet ==
    DecodedRequest /\ isValidWebUrl(req.url) /\ req.method = "GET" /\ req.psl = "ok"
NoNetworkIO ==
    /\ bingCalls = 0
    /\ fetchCalls = 0
    /\ launches = 0
    /\ browser = "none"
    /\ pc \in {"start", "done"}
Responded == pc = "done" /\ Len(sent) = 1
\* the page-specific search returned a result list
FullSuccess == Responded /\ pageSearch = "results"

\* C1: a request whose url is one string that decodes to something that is not
\* a valid http/https URL is answered 400 "Invalid web url" with success false,
\* and no image search, direct fetch or browser launch happens before or after.
C1_InvalidUrlNoNetwork ==
    InvalidUrlRequest =>
        /\ NoNetworkIO
        /\ pc = "start" => sent = <<>>
        /\ pc = "done" =>
              /\ Len(sent) = 1
              /\ sent[1].status = 400
              /\ sent[1].success = FALSE
              /\ sent[1].error = "Invalid web url"
              /\ ~sent[1].hasResult

C1_Witness == InvalidUrlRequest /\ Responded /\ req.method = "GET" /\ req.url.scheme = "ftp"

\* C2 as stated: every non-GET request with a decodable single-string url is
\* answered method-not-allowed (404), whether the decoded URL is valid or not,
\* without network I/O.
C2_Original ==
    (DecodedRequest /\ req.method # "GET") =>
        /\ NoNetworkIO
        /\ pc = "done" =>
              /\ Len(sent) = 1
              /\ sent[1].status = 404
              /\ sent[1].success = FALSE

\* C2 amended: a non-GET request with a decodable single-string url is answered
\* method-not-allowed (404) when the decoded URL is a valid http/https URL and
\* invalid-URL (400) when it is not: the URL is validated before the method is
\* looked at.  Neither case does network I/O.
C2_NonGetAfterValidation ==
    (DecodedRequest /\ req.method # "GET") =>
        /\ NoNetworkIO
        /\ pc = "done" =>
              /\ Len(sent) = 1
              /\ sent[1].success = FALSE
              /\ isValidWebUrl(req.url) =>
                    sent[1].status = 404 /\ sent[1].error = "Method not allowed"
              /\ ~isValidWebUrl(req.url) =>
                    sent[1].status = 400 /\ sent[1].error = "Invalid web url"

C2_Witness ==
    /\ DecodedRequest /\ req.method = "POST" /\ isValidWebUrl(req.url)
    /\ Responded /\ sent[1].status = 404

\* C3: on the full-success path with at least five root-domain images,
\* imageResults is the page-specific list with r0 inserted at 2, r1 at 5, r2 at
\* 10, r3 at 15 and r4 at 20 of the growing sequence (past the end: appended);
\* the order of the page images and of r0..r4 is kept and no sixth root image
\* is included.
C3_MergeIsSequentialInsert ==
    (FullSuccess /\ Len(rootDomainImageUrls) >= 5) =>
        LET P == pageImages
            R == rootDomainImageUrls
            out == sent[1].imageResults
        IN /\ out = InsertAt(InsertAt(InsertAt(InsertAt(InsertAt(P,
                        2, R[1]), 5, R[2]), 10, R[3]), 15, R[4]), 20, R[5])
           /\ SelectSeq(out, IsPageImage) = P
           /\ SelectSeq(out, IsRootImage) = SubSeq(R, 1, 5)
           /\ Len(out) = Len(P) + 5

\* the page list is long enough for no insertion to be clamped, and a sixth
\* root image exists
C3_Witness ==
    /\ FullSuccess
    /\ Len(rootDomainImageUrls) = 6
    /\ Len(pageImages) = 17
    /\ sent[1].imageResults[21] = <<"r", 4>>

\* C4: on the full-success path every element of imageResults is a page or a
\* root image, never a placeholder, and its length is
\* |pageSpecificImages| + min(5, |rootDomainImages|).
C4_NoPlaceholders ==
    FullSuccess =>
        LET out == sent[1].imageResults IN
        /\ \A i \in 1..Len(out) : out[i] \in Elems(pageImages) \cup Elems(rootDomainImageUrls)
        /\ Len(out) = Len(pageImages) + Min(5, Len(rootDomainImageUrls))

\* case-insensitive occurrence of the word w in s
ContainsCI(s, w) ==
    \E i \in 1..(Len(s) - Len(w) + 1) : \A k \in 1..Len(w) : Lower(s[i + k - 1]) = Lower(w[k])

\* C5: for a title with a non-whitespace character that contains the sld of the
\* root domain, the search string has no case-insensitive occurrence of the sld
\* and is not empty; when removing the sld leaves nothing but whitespace, the
\* search string is the original title.
C5_LabelStripped ==
    (/\ pc = "strDone"
     /\ strDomain = RootDomain
     /\ HasNonWhitespace(strTitle)
     /\ ContainsCI(strTitle, Sld)) =>
        IF HasNonWhitespace(RegExReplaceAll(strTitle, Sld))
        THEN ~ContainsCI(strResult, Sld) /\ strResult # <<>>
        ELSE strResult = strTitle

\* C6: the provider is asked at most twice, and a second time only for a
\* scraped document whose title has a non-whitespace character; a request whose
\* scrape failed or whose title is blank ends with one provider call, no
\* page-specific search and the root-domain images as imageResults.
C6_PageSearchOnlyWithTitle ==
    /\ bingCalls <= 2
    /\ (bingCalls = 2 \/ pc = "pageSearch") => html.present /\ ~AllWhitespace(html.title)
    /\ (ProcessedGet /\ pc = "done" /\ (~html.present \/ AllWhitespace(html.title))) =>
          /\ bingCalls = 1
          /\ pageSearch = "notRun"
          /\ Len(sent) = 1
          /\ sent[1].imageResults = rootDomainImageUrls

C6_Witness ==
    /\ ProcessedGet /\ Responded
    /\ html.present /\ html.title = <<" ", " ">>
    /\ Len(rootDomainImageUrls) = 3

\* C7: a processed GET request whose page-specific search did not return a
\* result list (scrape failed, blank title, empty query, provider failure) is
\* answered 200 with success true and imageResults exactly the root-domain
\* result list, which is empty when the root-domain search failed.
C7_FallbackIsRootImages ==
    (ProcessedGet /\ pc = "done" /\ pageSearch # "results") =>
        /\ Len(sent) = 1
        /\ sent[1].status = 200
        /\ sent[1].success = TRUE
        /\ sent[1].imageResults = rootDomainImageUrls
        /\ \A i \in 1..Len(sent[1].imageResults) : sent[1].imageResults[i] = <<"r", i - 1>>
        /\ "rootSearch" \in failures => sent[1].imageResults = <<>>

C7_Witness ==
    /\ ProcessedGet /\ Responded
    /\ pageSearch = "error"
    /\ sent[1].imageResults = RootImgs(MaxRootImages)

\* C8: once scrapeMetaTags has returned, a browser it launched is closed.
C8_BrowserClosedOnReturn ==
    (launches > 0 /\ pc \in {"pageSearch", "done", "thrown"}) => browser = "closed"

\* C9: a processed GET request never raises, whatever the root-domain search,
\* the direct fetch, the headless render and the page-specific search do; it
\* sends nothing before it is done and then exactly one response, 200 with
\* success true and a result holding imageResults.
C9_AlwaysOneSuccessEnvelope ==
    ProcessedGet =>
        /\ pc # "thrown"
        /\ pc # "done" => sent = <<>>
        /\ pc = "done" =>
              /\ Len(sent) = 1
              /\ sent[1].status = 200
              /\ sent[1].success = TRUE
              /\ sent[1].hasResult

\* every step failed
C9_Witness ==
    /\ ProcessedGet /\ Responded
    /\ failures = {"rootSearch", "fetch", "render"}
    /\ sent[1].imageResults = <<>>

\* C10 as stated: a processed response whose errors list is missing or empty
\* had no failing step.
C10_Original ==
    (ProcessedGet /\ Responded /\ (~sent[1].hasErrors \/ sent[1].errors = <<>>)) =>
        failures = {}

\* C10 amended: the failures are reported on the fallback paths only.  On the
\* full-success path the response carries no errors list, whatever failed
\* before.  On a fallback path the response carries the handler's errors list,
\* which holds the root-domain search error and the page-specific search error
\* exactly when these searches failed, and the scraper's error list (with the
\* direct-fetch and render errors) exactly when the scrape brought no document:
\* a direct-fetch failure followed by a successful render is in no response.
C10_ErrorsOnFallbackOnly ==
    (ProcessedGet /\ Responded) =>
        LET r == sent[1] IN
        /\ pageSearch = "results" => ~r.hasErrors /\ r.errors = <<>>
        /\ pageSearch # "results" =>
              /\ r.hasErrors
              /\ r.errors = errors
              /\ RootSearchError \in Elems(r.errors) <=> "rootSearch" \in failures
              /\ (Elems(r.errors) \cap {PageSearchError, NoSearchStringError} # {})
                     <=> "pageSearch" \in failures
              /\ ~html.present =>
                    /\ r.errors[Len(r.errors)] = scrapeErrors
                    /\ "fetch" \in Elems(scrapeErrors) <=> "fetch" \in failures
                    /\ (Elems(scrapeErrors) \ {"fetch"} # {}) <=> "render" \in failures
              /\ html.present =>
                    \A e \in Elems(r.errors) :
                        e \in {RootSearchError, PageSearchError, NoSearchStringError,
                               UndefinedError}

\* the root-domain search and the direct fetch failed, the render and the
\* page-specific search succeeded
C10_Witness ==
    /\ ProcessedGet /\ Responded
    /\ pageSearch = "results"
    /\ failures = {"rootSearch", "fetch"}
    /\ errors = <<RootSearchError>>
    /\ scrapeErrors = <<"fetch">>

====
